---- MODULE Spec2Model ----
(***************************************************************************)
(* Batch test runner of the image-description testing system               *)
(* (src/test_runner.py: TestCase, ImageTestRunner.run_test_case,           *)
(* ImageTestRunner.run_all_tests).                                         *)
(*                                                                         *)
(* Strings are sequences of tokens, so that concatenation (f-strings) is   *)
(* sequence concatenation.  Similarity scores are cosine values in [-1,1]; *)
(* the model draws them, and the thresholds, from the grid {-1, 0, 1},     *)
(* which has a score below, at and above each threshold.                   *)
(* datetime.now() is a logical clock; the empty timestamp "" is Unset.     *)
(* The report's success_rate is a float in the code; here it is the exact  *)
(* rational (a reduced fraction), floating-point rounding is not modelled. *)
(***************************************************************************)
EXTENDS Integers, Sequences, FiniteSets, TLC

\* ---------------------------------------------------------------- bounds
\* number of TestCase objects the caller may hand to run_all_tests
MaxCases == 2
\* number of run_all_tests calls over the same TestCase objects
MaxRuns == 2

\* highest id the store hands out before it is cleared
MaxIds == 6

\* ------------------------------------------------------- value domains
Refs == 1..MaxCases
\* util.cos_sim: a cosine, anywhere in [-1, 1]
Scores == {-1, 0, 1}
\* similarity_threshold: valid range [0.0, 1.0]
Thresholds == {0, 1}
\* the empty string default of TestCase.timestamp
Unset == 0
\* texts a vision client may return
Descriptions == {<<"a dog in a park">>}
\* str(e) of what a vision client may raise
ProviderErrors == {<<"connection refused">>}
\* str(e) of what the comparator may raise
ScorerErrors == {<<"encode failed">>}

\* ----------------------------------------------------------- TestCase
\* TestCase(id, image_path, expected_description) with the dataclass defaults
NewTestCase(id, image_path, expected_description) ==
    [id |-> id,
     image_path |-> image_path,
     expected_description |-> expected_description,
     actual_description |-> <<>>,
     similarity_score |-> 0,
     passed |-> FALSE,
     timestamp |-> Unset]

\* the cases a caller builds (load_test_cases_from_json / the store)
LoadedCase(r) ==
    NewTestCase(r, <<"uploads/", ToString(r), ".png">>, <<"expected ", ToString(r)>>)

VARIABLES
    heap,          \* the TestCase objects, by reference
    test_cases,    \* run_all_tests' argument: a list of references
    threshold,     \* self.similarity_threshold of the runner in use
    pc,            \* position of the runner in run_all_tests / run_test_case
    i,             \* index of the loop of run_all_tests (1-based)
    results,       \* local list `results` of run_all_tests
    passed_count,  \* local counter of run_all_tests
    exc,           \* str(e) of the exception being handled
    report,        \* the dict run_all_tests returns
    clock,         \* datetime.now()
    runs,          \* run_all_tests calls made so far
    pre,           \* history: passed and similarity_score of each object when the run began
    env,           \* history: what file system, provider and scorer did per case,
                   \* and how often actual_description was assigned
    phase,         \* history: per-case state of the current run
    log,           \* history: provider and scorer calls of the current run
    loaded,        \* history: whether SentenceTransformer(model_name) loaded when
                   \* the runner was last constructed
    client,        \* the vision client the runner is given
    stored_cases,  \* app.py: the global list test_cases (the store)
    test_case_counter,  \* app.py: the next id
    batch,         \* app.py: the test_cases.copy() last handed to a runner
    rq             \* app.py: the run-tests requests in progress, each with the
                   \* locals of its own runner and run_all_tests call

\* the store of the web application
storevars == <<stored_cases, test_case_counter, batch>>

\* the runner, its cases and its histories
runnervars == <<heap, test_cases, threshold, pc, i, results, passed_count, exc,
                report, clock, runs, pre, env, phase, log, loaded, client>>

vars == <<runnervars, storevars, rq>>


\* ------------------------------------------------------------- helpers
RECURSIVE GCD(_, _)
GCD(a, b) == IF b = 0 THEN a ELSE GCD(b, a % b)

\* the rational a/b (b > 0, a >= 0) in lowest terms
Ratio(a, b) == [num |-> a \div GCD(a, b), den |-> b \div GCD(a, b)]

\* passed_count / len(test_cases): true division
TrueDiv(a, b) == Ratio(a, b)

\* x * k for a rational x and an integer k
Times(x, k) == Ratio(x.num * k, x.den)

\* the int 0 of the else branch of success_rate
Zero == [num |-> 0, den |-> 1]

\* f"Image file not found: {test_case.image_path}"
NotFoundMessage(image_path) == <<"Image file not found: ">> \o image_path

\* f"Error: {str(e)}"
ErrorString(msg) == <<"Error: ">> \o msg

\* `except Exception as e` of run_test_case: which failures it catches
CatchesOnlyMissingImage(origin) == origin = "image"
Catches(origin) == TRUE

\* `if not os.path.exists(test_case.image_path): raise FileNotFoundError`
NeverMissing(exists) == FALSE
MissingImage(exists) == ~exists

\* test_case.similarity_score >= self.similarity_threshold
PassesStrictly(score, t) == score > t
Passes(score, t) == score >= t

\* handler: test_case.actual_description = f"Error: {str(e)}"
WithErrorInExpected(c, msg) == [c EXCEPT !.expected_description = ErrorString(msg)]
WithError(c, msg) == [c EXCEPT !.actual_description = ErrorString(msg)]

\* handler: test_case.passed = False
KeepPassed(c) == c
WithNotPassed(c) == [c EXCEPT !.passed = FALSE]

\* test_case.timestamp = datetime.now().isoformat()
NotStamped(c, now) == c
Stamped(c, now) == [c EXCEPT !.timestamp = now]

\* results.append(result)
Prepended(rs, r) == <<r>> \o rs
Appended(rs, r) == Append(rs, r)

\* if result.passed: passed_count += 1
CountedAlways(p, c) == p + 1
Counted(p, c) == IF c.passed THEN p + 1 ELSE p

\* the for loop's advance to the next element
SkipOne(k) == k + 2
NextIndex(k) == k + 1

\* (passed_count / len(test_cases)) * 100 if test_cases else 0
SuccessRateAsFraction(p, cases) == IF Len(cases) > 0 THEN TrueDiv(p, Len(cases)) ELSE Zero
SuccessRate(p, cases) ==
    IF Len(cases) > 0 THEN Times(TrueDiv(p, Len(cases)), 100) ELSE Zero

\* the 'failed' entry of the report
FailedOnlyErrors(cases, rs, p, h) ==
    Cardinality({k \in 1..Len(rs) :
        /\ Len(h[rs[k]].actual_description) > 0
        /\ h[rs[k]].actual_description[1] = "Error: "})
FailedCount(cases, rs, p, h) == Len(cases) - p

\* the dict run_all_tests returns; asdict(tc) copies each object's fields
BuildReport(cases, rs, p, h, now) ==
    [test_cases |-> [k \in 1..Len(rs) |-> h[rs[k]]],
     total_tests |-> Len(cases),
     passed |-> p,
     failed |-> FailedCount(cases, rs, p, h),
     success_rate |-> SuccessRate(p, cases),
     timestamp |-> now]

\* no report: run_all_tests has not returned
NoReport ==
    [test_cases |-> <<>>, total_tests |-> 0, passed |-> 0, failed |-> 0,
     success_rate |-> Zero, timestamp |-> Unset]

\* what the history keeps of the objects a run is given
Snapshot(h) ==
    [r \in Refs |-> [passed |-> h[r].passed, similarity_score |-> h[r].similarity_score]]

\* nothing has happened to a case yet
NoEnv ==
    [checked |-> FALSE, exists |-> FALSE, desc |-> "none", text |-> <<>>,
     cmp |-> "none", score |-> 0, msg |-> <<>>, writes |-> 0,
     status |-> 0, body |-> <<>>, captions |-> 0]

\* the case run_test_case is working on
cur == test_cases[i]

\* a raise inside the try block of run_test_case
RaiseThenRetry(origin, msg) ==
    /\ exc' = msg
    /\ pc' = IF origin = "provider" THEN "describe" ELSE "except"
Raise(origin, msg) ==
    /\ exc' = msg
    /\ pc' = IF Catches(origin) THEN "except" ELSE "raised"

\* ----------------------------------------------------- vision clients
\* what a describe_image call answers: a text, or an exception with str(e)
Returned(text) == [ok |-> TRUE, text |-> text, msg |-> <<>>]
Raised(msg) == [ok |-> FALSE, text |-> <<>>, msg |-> msg]

\* an HTTP response: status code, response.text, and what response.json()
\* holds: the 'description' object with its 'captions' list (Azure), or the
\* content of the first choice's message (OpenAI)
Response(status, body, described, captions, content) ==
    [status |-> status, body |-> body, described |-> described,
     captions |-> captions, content |-> content]

\* str.strip(): leading and trailing whitespace removed
RECURSIVE Strip(_)
Strip(text) ==
    IF text = <<>> THEN text
    ELSE IF Head(text) = " " THEN Strip(Tail(text))
    ELSE IF text[Len(text)] = " " THEN Strip(SubSeq(text, 1, Len(text) - 1))
    ELSE text

\* the fixed text of AzureComputerVisionClient for a response without caption
NoDescription == <<"No description available">>

\* AzureComputerVisionClient.describe_image, from the response on
AzureDescribeRaisingOnNoCaption(resp) ==
    IF resp.status = 200
    THEN IF resp.described /\ Len(resp.captions) > 0
         THEN Returned(resp.captions[1])
         ELSE Raised(<<"Azure API Error: ", "no captions">>)
    ELSE Raised(<<"Azure API Error: ", ToString(resp.status), " - ">> \o resp.body)
AzureDescribe(resp) ==
    IF resp.status = 200
    THEN IF resp.described /\ Len(resp.captions) > 0
         THEN Returned(resp.captions[1])
         ELSE Returned(NoDescription)
    ELSE Raised(<<"Azure API Error: ", ToString(resp.status), " - ">> \o resp.body)

\* OpenAIVisionClient.describe_image, from the response on
OpenAIDescribeReturningBody(resp) ==
    IF resp.status = 200 THEN Returned(Strip(resp.content)) ELSE Returned(resp.body)
OpenAIDescribe(resp) ==
    IF resp.status = 200
    THEN Returned(Strip(resp.content))
    ELSE Raised(<<"OpenAI API Error: ", ToString(resp.status), " - ">> \o resp.body)

\* VisionAPIClient: the interface; an implementation returns some text or
\* raises something
AnyDescribe(resp) ==
    IF resp.status = 200 THEN Returned(resp.content) ELSE Raised(resp.body)

\* self.vision_client.describe_image(image_path), by the client's class
DescribeImage(c, resp) ==
    CASE c = "AzureComputerVisionClient" -> AzureDescribe(resp)
      [] c = "OpenAIVisionClient" -> OpenAIDescribe(resp)
      [] OTHER -> AnyDescribe(resp)

\* what the remote side may answer to a client of that class
Responses(c) ==
    CASE c = "AzureComputerVisionClient" ->
            {Response(200, <<>>, TRUE, <<d>>, <<>>) : d \in Descriptions}
            \cup {Response(200, <<>>, FALSE, <<>>, <<>>),
                  Response(200, <<>>, TRUE, <<>>, <<>>),
                  Response(401, <<"access denied">>, FALSE, <<>>, <<>>)}
      [] c = "OpenAIVisionClient" ->
            {Response(200, <<>>, FALSE, <<>>, <<" ">> \o d \o <<" ">>) : d \in Descriptions}
            \cup {Response(429, <<"rate limit reached">>, FALSE, <<>>, <<>>)}
      [] OTHER ->
            {Response(200, <<>>, FALSE, <<>>, d) : d \in Descriptions}
            \cup {Response(500, m, FALSE, <<>>, <<>>) : m \in ProviderErrors}

\* SemanticComparator() inside ImageTestRunner.__init__: both constructors
\* re-raise when SentenceTransformer(model_name) raises
ConstructedAnyway(loads) == TRUE
Constructed(loads) == loads

\* the run-tests requests a threaded server handles at the same time
Requests == {"request A", "request B"}

\* a request that has not arrived
NoRequest ==
    [pc |-> "idle", threshold |-> 0, cases |-> <<>>, i |-> 1, results |-> <<>>,
     passed_count |-> 0, exc |-> <<>>, report |-> NoReport]

\* ---------------------------------------------------------------- Init
\* a process whose runner is given a client of one of the classes `classes`
Start(classes) ==
    /\ client \in classes
    /\ loaded = TRUE
    /\ stored_cases = <<>>
    /\ test_case_counter = 1
    /\ batch = <<>>
    /\ rq = [t \in Requests |-> NoRequest]
    /\ heap = [r \in Refs |-> LoadedCase(r)]
    /\ \E n \in 0..MaxCases : test_cases = [k \in 1..n |-> k]
    /\ threshold = 0
    /\ pc = "idle"
    /\ i = 1
    /\ results = <<>>
    /\ passed_count = 0
    /\ exc = <<>>
    /\ report = NoReport
    /\ clock = 1
    /\ runs = 0
    /\ pre = Snapshot(heap)
    /\ env = [r \in Refs |-> NoEnv]
    /\ phase = [r \in Refs |-> "PENDING"]
    /\ log = <<>>

\* the runner with any implementation of VisionAPIClient
Init == Start({"VisionAPIClient"})

\* ------------------------------------------------------------- actions
\* ImageTestRunner(vision_client, t), which raises when the embedding model
\* does not load, and the call run_all_tests(test_cases) up to its loop
StartRun ==
    /\ pc \in {"idle", "done", "constructor raised"}
    /\ runs < MaxRuns
    /\ \E loads \in BOOLEAN :
        /\ loaded' = loads
        /\ IF Constructed(loads)
           THEN /\ \E t \in Thresholds : threshold' = t
                /\ runs' = runs + 1
                /\ pc' = "loop"
           ELSE /\ UNCHANGED <<threshold, runs>>
                /\ pc' = "constructor raised"
    /\ results' = <<>>
    /\ passed_count' = 0
    /\ i' = 1
    /\ exc' = <<>>
    /\ report' = NoReport
    /\ pre' = Snapshot(heap)
    /\ env' = [r \in Refs |-> NoEnv]
    /\ phase' = [r \in Refs |-> "PENDING"]
    /\ log' = <<>>
    /\ UNCHANGED <<client, storevars, rq, heap, test_cases, clock>>

\* for i, test_case in enumerate(test_cases, 1): the next element, and the
\* call of run_test_case up to the existence check of the image
EnterCase ==
    /\ pc = "loop"
    /\ i <= Len(test_cases)
    /\ \E exists \in BOOLEAN :
        /\ env' = [env EXCEPT ![cur].checked = TRUE, ![cur].exists = exists,
                              ![cur].msg = IF MissingImage(exists)
                                           THEN NotFoundMessage(heap[cur].image_path)
                                           ELSE <<>>]
        /\ IF MissingImage(exists)
           THEN /\ Raise("image", NotFoundMessage(heap[cur].image_path))
                /\ UNCHANGED phase
           ELSE /\ pc' = "describe"
                /\ phase' = [phase EXCEPT ![cur] = "DESCRIBING"]
                /\ UNCHANGED exc
    /\ UNCHANGED <<loaded, client, storevars, rq, heap, test_cases, threshold, i,
                   results, passed_count,
                   report, clock, runs, pre, log>>

\* test_case.actual_description = self.vision_client.describe_image(...)
Describe ==
    /\ pc = "describe"
    /\ log' = Append(log, <<"describe", cur>>)
    /\ \E resp \in Responses(client) :
        LET out == DescribeImage(client, resp)
            seen == [env[cur] EXCEPT !.status = resp.status, !.body = resp.body,
                                     !.captions = IF resp.described
                                                  THEN Len(resp.captions) ELSE 0]
        IN  IF out.ok
            THEN /\ heap' = [heap EXCEPT ![cur].actual_description = out.text]
                 /\ env' = [env EXCEPT ![cur] =
                               [seen EXCEPT !.desc = "ok", !.text = out.text,
                                            !.writes = @ + 1]]
                 /\ phase' = [phase EXCEPT ![cur] = "SCORING"]
                 /\ pc' = "compare"
                 /\ UNCHANGED exc
            ELSE /\ env' = [env EXCEPT ![cur] =
                               [seen EXCEPT !.desc = "raise", !.msg = out.msg]]
                 /\ Raise("provider", out.msg)
                 /\ UNCHANGED <<heap, phase>>
    /\ UNCHANGED <<loaded, client, storevars, rq, test_cases, threshold, i,
                   results, passed_count, report,
                   clock, runs, pre>>

\* test_case.similarity_score = self.comparator.compare(expected, actual)
Compare ==
    /\ pc = "compare"
    /\ log' = Append(log, <<"compare", cur>>)
    /\ \/ \E s \in Scores :
            /\ heap' = [heap EXCEPT ![cur].similarity_score = s]
            /\ env' = [env EXCEPT ![cur].cmp = "ok", ![cur].score = s]
            /\ pc' = "passed"
            /\ UNCHANGED exc
       \/ \E m \in ScorerErrors :
            /\ env' = [env EXCEPT ![cur].cmp = "raise", ![cur].msg = m]
            /\ Raise("scorer", m)
            /\ UNCHANGED heap
    /\ UNCHANGED <<loaded, client, storevars, rq, test_cases, threshold, i,
                   results, passed_count, report,
                   clock, runs, pre, phase>>

\* test_case.passed = test_case.similarity_score >= self.similarity_threshold
SetPassed ==
    /\ pc = "passed"
    /\ heap' = [heap EXCEPT ![cur].passed = Passes(heap[cur].similarity_score, threshold)]
    /\ pc' = "stamp"
    /\ UNCHANGED <<loaded, client, storevars, rq, test_cases, threshold, i,
                   results, passed_count, exc, report,
                   clock, runs, pre, env, phase, log>>

\* test_case.timestamp = datetime.now().isoformat(); the try block ends
SetTimestamp ==
    /\ pc = "stamp"
    /\ heap' = [heap EXCEPT ![cur] = Stamped(heap[cur], clock)]
    /\ clock' = clock + 1
    /\ phase' = [phase EXCEPT ![cur] = "SCORED"]
    /\ pc' = "return"
    /\ UNCHANGED <<loaded, client, storevars, rq, test_cases, threshold, i,
                   results, passed_count, exc, report,
                   runs, pre, env, log>>

\* except Exception as e: test_case.actual_description = f"Error: {str(e)}"
HandlerKeepsDescription ==
    /\ pc = "except"
    /\ pc' = "except_passed"
    /\ UNCHANGED <<loaded, client, storevars, rq, heap, test_cases, threshold, i,
                   results, passed_count, exc,
                   report, clock, runs, pre, env, phase, log>>
HandlerDescription ==
    /\ pc = "except"
    /\ heap' = [heap EXCEPT ![cur] = WithError(heap[cur], exc)]
    /\ env' = [env EXCEPT ![cur].writes = @ + 1]
    /\ pc' = "except_passed"
    /\ UNCHANGED <<loaded, client, storevars, rq, test_cases, threshold, i,
                   results, passed_count, exc, report,
                   clock, runs, pre, phase, log>>

\* handler: test_case.passed = False
HandlerPassed ==
    /\ pc = "except_passed"
    /\ heap' = [heap EXCEPT ![cur] = WithNotPassed(heap[cur])]
    /\ pc' = "except_stamp"
    /\ UNCHANGED <<loaded, client, storevars, rq, test_cases, threshold, i,
                   results, passed_count, exc, report,
                   clock, runs, pre, env, phase, log>>

\* handler: test_case.timestamp = datetime.now().isoformat()
HandlerTimestamp ==
    /\ pc = "except_stamp"
    /\ heap' = [heap EXCEPT ![cur] = Stamped(heap[cur], clock)]
    /\ clock' = clock + 1
    /\ phase' = [phase EXCEPT ![cur] = "FAILED"]
    /\ pc' = "return"
    /\ UNCHANGED <<loaded, client, storevars, rq, test_cases, threshold, i,
                   results, passed_count, exc, report,
                   runs, pre, env, log>>

\* return test_case; results.append(result); if result.passed: passed_count += 1
Collect ==
    /\ pc = "return"
    /\ results' = Appended(results, cur)
    /\ passed_count' = Counted(passed_count, heap[cur])
    /\ i' = NextIndex(i)
    /\ pc' = "loop"
    /\ UNCHANGED <<loaded, client, storevars, rq, heap, test_cases, threshold,
                   exc, report, clock, runs, pre,
                   env, phase, log>>

\* the loop is exhausted: success_rate, and the returned dict
Return ==
    /\ pc = "loop"
    /\ i > Len(test_cases)
    /\ report' = BuildReport(test_cases, results, passed_count, heap, clock)
    /\ clock' = clock + 1
    /\ pc' = "done"
    /\ UNCHANGED <<loaded, client, storevars, rq, heap, test_cases, threshold, i,
                   results, passed_count, exc,
                   runs, pre, env, phase, log>>

Next ==
    \/ StartRun
    \/ EnterCase
    \/ Describe
    \/ Compare
    \/ SetPassed
    \/ SetTimestamp
    \/ HandlerDescription
    \/ HandlerPassed
    \/ HandlerTimestamp
    \/ Collect
    \/ Return

Spec == Init /\ [][Next]_vars

\* the steps of a run that has begun
RunStep ==
    \/ EnterCase
    \/ Describe
    \/ Compare
    \/ SetPassed
    \/ SetTimestamp
    \/ HandlerDescription
    \/ HandlerPassed
    \/ HandlerTimestamp
    \/ Collect
    \/ Return

\* the interpreter keeps executing a call that has begun, and every provider
\* and scorer call returns or raises
FairSpec == Spec /\ WF_vars(RunStep)

\* the runner with the two concrete clients get_vision_client can build
ProvidersInit == Start({"AzureComputerVisionClient", "OpenAIVisionClient"})

SpecProviders == ProvidersInit /\ [][Next]_vars

\* ------------------------------------------------- the store (app.py)
\* ALLOWED_EXTENSIONS
ALLOWED_EXTENSIONS == {"png", "jpg", "jpeg", "gif", "webp"}

\* allowed_file(filename): a dot, and an allowed extension after the last
\* one (file names are token sequences that end in the extension, in lower
\* case)
allowed_file(filename) ==
    /\ \E k \in 1..Len(filename) : filename[k] = "."
    /\ filename[Len(filename)] \in ALLOWED_EXTENSIONS

\* what a client may upload: file names and descriptions
Filenames == {<<>>, <<"photo", ".", "png">>, <<"notes", ".", "txt">>}
FormDescriptions == {<<>>, <<"a dog in a park">>}

\* the ids of a list of cases
Ids(cases) == [k \in 1..Len(cases) |-> cases[k].id]

\* POST /api/test-cases: the 400 answers change nothing; otherwise the case
\* gets the counter as id and the counter moves on (the time stamp in the
\* stored file name is left out)
add_test_case ==
    \E has_image \in BOOLEAN : \E filename \in Filenames :
    \E description \in FormDescriptions :
        IF /\ has_image
           /\ filename # <<>>
           /\ description # <<>>
           /\ allowed_file(filename)
        THEN /\ test_case_counter <= MaxIds
             /\ stored_cases' = Append(stored_cases,
                    NewTestCase(test_case_counter,
                                <<"uploads/", ToString(test_case_counter), "_">>
                                    \o filename,
                                description))
             /\ test_case_counter' = test_case_counter + 1
             /\ UNCHANGED <<batch, runnervars, rq>>
        ELSE UNCHANGED vars

\* DELETE /api/test-cases/<test_id>: 404 when no case has the id
delete_test_case ==
    \E test_id \in 1..MaxIds :
        IF \E k \in 1..Len(stored_cases) : stored_cases[k].id = test_id
        THEN /\ stored_cases' = SelectSeq(stored_cases, LAMBDA tc : tc.id # test_id)
             /\ UNCHANGED <<test_case_counter, batch, runnervars, rq>>
        ELSE UNCHANGED vars

\* POST /api/test-cases/clear
clear_counter_only ==
    /\ test_case_counter' = 1
    /\ UNCHANGED <<stored_cases, batch, runnervars, rq>>
clear_test_cases ==
    /\ stored_cases' = <<>>
    /\ test_case_counter' = 1
    /\ UNCHANGED <<batch, runnervars, rq>>

\* POST /api/run-tests, up to the call run_all_tests(test_cases.copy()):
\* 400 on an empty store, 400 or 500 when client or runner cannot be built
run_tests ==
    \E built \in BOOLEAN :
        IF stored_cases # <<>> /\ built
        THEN /\ batch' = stored_cases
             /\ UNCHANGED <<stored_cases, test_case_counter, runnervars, rq>>
        ELSE UNCHANGED vars

StoreNext ==
    \/ add_test_case
    \/ delete_test_case
    \/ clear_test_cases
    \/ run_tests

\* the web application before any request, with the default client
StoreInit == Start({"OpenAIVisionClient"}) /\ test_cases = <<>>

StoreSpec == StoreInit /\ [][StoreNext]_vars

\* ------------------------- concurrent run-tests requests (app.py)
\* Each request thread executes run_tests with its own runner and its own
\* locals; test_cases.copy() is a new list of the SAME TestCase objects, so
\* the requests share `heap`.  A step is one statement of run_test_case or
\* run_all_tests; the interpreter may switch threads between any two.

\* what the requests leave alone: the sequential runner's own variables
runnerlocals == <<test_cases, threshold, pc, i, results, passed_count, exc,
                  report, runs, pre, env, phase, log, loaded, client>>

\* the case request t is working on
mine(t) == rq[t].cases[rq[t].i]

\* run_tests up to the loop of run_all_tests(test_cases.copy()): 400 on an
\* empty store, 500 when the runner cannot be constructed
ReqStart(t) ==
    /\ rq[t].pc = "idle"
    /\ \E loads \in BOOLEAN : \E th \in Thresholds :
        IF test_cases # <<>> /\ Constructed(loads)
        THEN rq' = [rq EXCEPT ![t] = [NoRequest EXCEPT !.pc = "loop",
                                                       !.threshold = th,
                                                       !.cases = test_cases]]
        ELSE rq' = [rq EXCEPT ![t].pc = "refused"]
    /\ UNCHANGED <<heap, clock, storevars, runnerlocals>>

\* the next element of the loop, and the existence check of its image
ReqEnterCase(t) ==
    /\ rq[t].pc = "loop"
    /\ rq[t].i <= Len(rq[t].cases)
    /\ \E exists \in BOOLEAN :
        IF MissingImage(exists)
        THEN rq' = [rq EXCEPT ![t].exc = NotFoundMessage(heap[mine(t)].image_path),
                              ![t].pc = "except"]
        ELSE rq' = [rq EXCEPT ![t].pc = "describe"]
    /\ UNCHANGED <<heap, clock, storevars, runnerlocals>>

\* test_case.actual_description = self.vision_client.describe_image(...)
ReqDescribe(t) ==
    /\ rq[t].pc = "describe"
    /\ \E resp \in Responses(client) :
        LET out == DescribeImage(client, resp)
        IN  IF out.ok
            THEN /\ heap' = [heap EXCEPT ![mine(t)].actual_description = out.text]
                 /\ rq' = [rq EXCEPT ![t].pc = "compare"]
            ELSE /\ rq' = [rq EXCEPT ![t].exc = out.msg, ![t].pc = "except"]
                 /\ UNCHANGED heap
    /\ UNCHANGED <<clock, storevars, runnerlocals>>

\* test_case.similarity_score = self.comparator.compare(expected, actual)
ReqCompare(t) ==
    /\ rq[t].pc = "compare"
    /\ \/ \E s \in Scores :
            /\ heap' = [heap EXCEPT ![mine(t)].similarity_score = s]
            /\ rq' = [rq EXCEPT ![t].pc = "passed"]
       \/ \E m \in ScorerErrors :
            /\ rq' = [rq EXCEPT ![t].exc = m, ![t].pc = "except"]
            /\ UNCHANGED heap
    /\ UNCHANGED <<clock, storevars, runnerlocals>>

\* test_case.passed = test_case.similarity_score >= self.similarity_threshold
ReqSetPassed(t) ==
    /\ rq[t].pc = "passed"
    /\ heap' = [heap EXCEPT ![mine(t)].passed =
                    Passes(heap[mine(t)].similarity_score, rq[t].threshold)]
    /\ rq' = [rq EXCEPT ![t].pc = "stamp"]
    /\ UNCHANGED <<clock, storevars, runnerlocals>>

\* test_case.timestamp = datetime.now().isoformat()
ReqSetTimestamp(t) ==
    /\ rq[t].pc = "stamp"
    /\ heap' = [heap EXCEPT ![mine(t)] = Stamped(heap[mine(t)], clock)]
    /\ clock' = clock + 1
    /\ rq' = [rq EXCEPT ![t].pc = "return"]
    /\ UNCHANGED <<storevars, runnerlocals>>

\* except Exception as e: test_case.actual_description = f"Error: {str(e)}"
ReqHandlerDescription(t) ==
    /\ rq[t].pc = "except"
    /\ heap' = [heap EXCEPT ![mine(t)] = WithError(heap[mine(t)], rq[t].exc)]
    /\ rq' = [rq EXCEPT ![t].pc = "except_passed"]
    /\ UNCHANGED <<clock, storevars, runnerlocals>>

\* handler: test_case.passed = False
ReqHandlerPassed(t) ==
    /\ rq[t].pc = "except_passed"
    /\ heap' = [heap EXCEPT ![mine(t)] = WithNotPassed(heap[mine(t)])]
    /\ rq' = [rq EXCEPT ![t].pc = "except_stamp"]
    /\ UNCHANGED <<clock, storevars, runnerlocals>>

\* handler: test_case.timestamp = datetime.now().isoformat()
ReqHandlerTimestamp(t) ==
    /\ rq[t].pc = "except_stamp"
    /\ heap' = [heap EXCEPT ![mine(t)] = Stamped(heap[mine(t)], clock)]
    /\ clock' = clock + 1
    /\ rq' = [rq EXCEPT ![t].pc = "return"]
    /\ UNCHANGED <<storevars, runnerlocals>>

\* return test_case; results.append(result); if result.passed: passed_count += 1
ReqCollect(t) ==
    /\ rq[t].pc = "return"
    /\ rq' = [rq EXCEPT ![t].results = Appended(@, mine(t)),
                        ![t].passed_count = Counted(@, heap[mine(t)]),
                        ![t].i = NextIndex(@),
                        ![t].pc = "loop"]
    /\ UNCHANGED <<heap, clock, storevars, runnerlocals>>

\* the loop is exhausted: the dict run_all_tests returns to run_tests, which
\* answers it as JSON
ReqReturn(t) ==
    /\ rq[t].pc = "loop"
    /\ rq[t].i > Len(rq[t].cases)
    /\ rq' = [rq EXCEPT ![t].report =
                            BuildReport(rq[t].cases, rq[t].results,
                                        rq[t].passed_count, heap, clock),
                        ![t].pc = "done"]
    /\ clock' = clock + 1
    /\ UNCHANGED <<heap, storevars, runnerlocals>>

ConcurrentNext ==
    \E t \in Requests :
        \/ ReqStart(t)
        \/ ReqEnterCase(t)
        \/ ReqDescribe(t)
        \/ ReqCompare(t)
        \/ ReqSetPassed(t)
        \/ ReqSetTimestamp(t)
        \/ ReqHandlerDescription(t)
        \/ ReqHandlerPassed(t)
        \/ ReqHandlerTimestamp(t)
        \/ ReqCollect(t)
        \/ ReqReturn(t)

\* the web application with its default client and some stored cases
ConcurrentInit == Start({"OpenAIVisionClient"})

ConcurrentSpec == ConcurrentInit /\ [][ConcurrentNext]_vars

\* ------------------------------------------------------ claim vocabulary
\* positions of the batch
Positions == 1..Len(test_cases)

\* the case has reached SCORED or FAILED in the current run
Terminal(r) == phase[r] \in {"SCORED", "FAILED"}

\* the execution of the case failed at some step
FailedStep(r) ==
    /\ env[r].checked
    /\ \/ ~env[r].exists
       \/ env[r].desc = "raise"
       \/ env[r].cmp = "raise"

\* provider or scorer was called for the case in the current run
Called(what, r) == \E n \in 1..Len(log) : log[n] = <<what, r>>

\* what one case must end as, from its own inputs alone: its image, what the
\* provider and the scorer answered for it, and the run's threshold
OwnOutcome(r) ==
    IF FailedStep(r)
    THEN [actual_description |-> <<"Error: ">> \o env[r].msg,
          similarity_score |-> pre[r].similarity_score,
          passed |-> FALSE]
    ELSE [actual_description |-> env[r].text,
          similarity_score |-> env[r].score,
          passed |-> env[r].score >= threshold]

\* what the case did end as
Observed(r) ==
    [actual_description |-> heap[r].actual_description,
     similarity_score |-> heap[r].similarity_score,
     passed |-> heap[r].passed]

\* ---------------------------------------------------------------- C1
\* C1: batch isolation.  No exception escapes run_all_tests, and when it has
\* returned, every case j behind a failed case i has been executed, has a
\* terminal state, and ended as its own inputs alone determine.
C1_BatchIsolation ==
    /\ pc # "raised"
    /\ pc = "done" =>
         \A a \in Positions : \A b \in Positions :
            (a < b /\ FailedStep(test_cases[a])) =>
                /\ env[test_cases[b]].checked
                /\ Terminal(test_cases[b])
                /\ heap[test_cases[b]].timestamp # Unset
                /\ Observed(test_cases[b]) = OwnOutcome(test_cases[b])

\* a provider failure in one case, and a later case scored and passed
C1_Witness ==
    /\ pc = "done"
    /\ \E a \in Positions : \E b \in Positions :
        /\ a < b
        /\ env[test_cases[a]].desc = "raise"
        /\ phase[test_cases[b]] = "SCORED"
        /\ heap[test_cases[b]].passed

\* ---------------------------------------------------------------- C2
\* C2: a case that completed without error (state SCORED) has
\* passed = (similarity_score >= threshold); equality is a pass.
C2_PassedIffAtLeastThreshold ==
    \A r \in Refs :
        phase[r] = "SCORED" =>
            (heap[r].passed <=> heap[r].similarity_score >= threshold)

\* a scored case whose score equals the threshold, and passed
C2_Witness ==
    \E r \in Refs :
        /\ phase[r] = "SCORED"
        /\ heap[r].similarity_score = threshold
        /\ heap[r].passed

\* ---------------------------------------------------------------- C3
\* C3: a case whose execution failed (missing image, provider error, scorer
\* error) ends with passed = false, actual_description = "Error: " + message
\* and its timestamp set, also when it had passed in an earlier run.
C3_FailureFields ==
    \A r \in Refs :
        phase[r] = "FAILED" =>
            /\ FailedStep(r)
            /\ heap[r].passed = FALSE
            /\ heap[r].actual_description = <<"Error: ">> \o env[r].msg
            /\ Len(env[r].msg) > 0
            /\ heap[r].timestamp # Unset

\* a case that passed in the run before and now failed in the scorer
C3_Witness ==
    \E r \in Refs :
        /\ phase[r] = "FAILED"
        /\ pre[r].passed
        /\ env[r].cmp = "raise"

\* ---------------------------------------------------------------- C4
\* C4: in the returned report passed + failed = total_tests = number of
\* input cases, and neither count is negative.
C4_CountsAddUp ==
    pc = "done" =>
        /\ report.passed + report.failed = report.total_tests
        /\ report.total_tests = Len(test_cases)
        /\ report.passed >= 0
        /\ report.failed >= 0

\* a report with a passed case and a case that failed by low similarity
C4_Witness ==
    /\ pc = "done"
    /\ report.passed >= 1
    /\ \E r \in Refs : phase[r] = "SCORED" /\ ~heap[r].passed

\* ---------------------------------------------------------------- C5
\* C5: success_rate = passed / total * 100 when total > 0, and 0 when
\* total = 0; the empty batch returns the all-zero report with no cases,
\* and neither provider nor scorer is called.
C5_SuccessRate ==
    pc = "done" =>
        /\ report.total_tests > 0 =>
              report.success_rate.num * report.total_tests
                  = report.passed * 100 * report.success_rate.den
        /\ report.total_tests = 0 =>
              /\ report.success_rate.num = 0
              /\ report.passed = 0
              /\ report.failed = 0
              /\ report.test_cases = <<>>
              /\ log = <<>>
        /\ Len(test_cases) = 0 => report.total_tests = 0

\* the empty batch has been run
C5_Witness ==
    /\ pc = "done"
    /\ Len(test_cases) = 0
    /\ report.timestamp # Unset

\* ---------------------------------------------------------------- C6
\* C6: the report has one entry per input case, in input order: entry k
\* carries id, image_path and expected_description of input case k.
C6_ReportInInputOrder ==
    pc = "done" =>
        /\ Len(report.test_cases) = Len(test_cases)
        /\ \A k \in Positions :
            /\ report.test_cases[k].id = LoadedCase(test_cases[k]).id
            /\ report.test_cases[k].image_path = LoadedCase(test_cases[k]).image_path
            /\ report.test_cases[k].expected_description
                   = LoadedCase(test_cases[k]).expected_description

\* a report of two cases, the first failed and the second scored
C6_Witness ==
    /\ pc = "done"
    /\ Len(test_cases) >= 2
    /\ phase[test_cases[1]] = "FAILED"
    /\ phase[test_cases[2]] = "SCORED"

\* ---------------------------------------------------------------- C7
\* C7: a case whose image file does not exist goes from PENDING to FAILED:
\* neither describe nor compare is called for it, and the batch goes on to
\* the next case.
C7_MissingImageSkipsCalls ==
    /\ \A r \in Refs :
        (env[r].checked /\ ~env[r].exists) =>
            /\ ~Called("describe", r)
            /\ ~Called("compare", r)
            /\ phase[r] \in {"PENDING", "FAILED"}
    /\ pc = "done" =>
        \A k \in Positions :
            /\ env[test_cases[k]].checked
            /\ Terminal(test_cases[k])

\* a missing image followed by a case that was described and scored
C7_Witness ==
    /\ pc = "done"
    /\ \E k \in Positions :
        /\ k + 1 \in Positions
        /\ env[test_cases[k]].checked
        /\ ~env[test_cases[k]].exists
        /\ phase[test_cases[k]] = "FAILED"
        /\ Called("describe", test_cases[k + 1])
        /\ phase[test_cases[k + 1]] = "SCORED"

\* ---------------------------------------------------------------- C8
\* C8 as stated: in every reachable state, also inside the execution of one
\* case, passed = true implies that the timestamp is set.
C8_AsStated ==
    \A r \in Refs : heap[r].passed => heap[r].timestamp # Unset

\* C8 amended: passed = true with the timestamp unset happens only between
\* the two last assignments of the success path (passed, then timestamp) of
\* the case being executed; before a run, between cases and in the report,
\* passed = true implies that the timestamp is set.
C8_PassedImpliesStampedOutsideWindow ==
    /\ \A r \in Refs :
        (heap[r].passed /\ heap[r].timestamp = Unset) =>
            (pc = "stamp" /\ r = test_cases[i])
    /\ pc = "done" =>
        \A k \in 1..Len(report.test_cases) :
            report.test_cases[k].passed => report.test_cases[k].timestamp # Unset

\* a case that completed and passed, with its timestamp set
C8_Witness ==
    \E r \in Refs :
        /\ phase[r] = "SCORED"
        /\ heap[r].passed
        /\ heap[r].timestamp # Unset

\* ---------------------------------------------------------------- C9
\* C9: id, image_path and expected_description of a case never change, on
\* any path; only the four outcome fields do.
C9_IdentityFrame ==
    [][\A r \in Refs :
          /\ heap'[r].id = heap[r].id
          /\ heap'[r].image_path = heap[r].image_path
          /\ heap'[r].expected_description = heap[r].expected_description]_vars

\* one case failed and one scored: the outcome fields did change
C9_Witness ==
    /\ pc = "done"
    /\ \E r \in Refs : phase[r] = "FAILED" /\ heap[r].actual_description[1] = "Error: "
    /\ \E r \in Refs : phase[r] = "SCORED" /\ heap[r].actual_description \in Descriptions

\* --------------------------------------------------------------- C10
\* C10: cases are processed in input order without overlap: work on case
\* k+1 begins only after case k is SCORED or FAILED, provider calls follow
\* the input order, and no case is skipped.
C10_SequentialInOrder ==
    /\ \A k \in Positions :
        (k + 1 \in Positions /\ env[test_cases[k + 1]].checked) =>
            Terminal(test_cases[k])
    /\ \A k \in Positions :
        phase[test_cases[k]] # "PENDING" => env[test_cases[k]].checked
    /\ \A m \in 1..Len(log) : \A n \in 1..Len(log) :
        (m < n /\ log[m][1] = "describe" /\ log[n][1] = "describe") =>
            \E a \in Positions : \E b \in Positions :
                a < b /\ test_cases[a] = log[m][2] /\ test_cases[b] = log[n][2]
    /\ pc = "done" => \A k \in Positions : Terminal(test_cases[k])

\* two cases were described one after the other
C10_Witness ==
    /\ pc = "done"
    /\ \E m \in 1..Len(log) : \E n \in 1..Len(log) :
        /\ m < n
        /\ log[m][1] = "describe"
        /\ log[n][1] = "describe"
        /\ log[m][2] # log[n][2]

\* --------------------------------------------------------------- C11
\* C11 as stated: in one execution attempt actual_description is assigned
\* exactly once on every path.
C11_AsStated ==
    \A r \in Refs : Terminal(r) => env[r].writes = 1

\* C11 amended: actual_description is assigned once on the success path,
\* once when the image is missing or describe raises, and twice when
\* describe succeeds and the scorer then raises (the provider's text, then
\* the error string, which is the value left).
C11_WritesPerPath ==
    \A r \in Refs :
        Terminal(r) =>
            /\ env[r].writes =
                  IF env[r].desc = "ok" /\ env[r].cmp = "raise" THEN 2 ELSE 1
            /\ phase[r] = "FAILED" =>
                  heap[r].actual_description = <<"Error: ">> \o env[r].msg
            /\ phase[r] = "SCORED" => heap[r].actual_description = env[r].text

\* describe succeeded, the scorer raised: two assignments
C11_Witness ==
    \E r \in Refs :
        /\ phase[r] = "FAILED"
        /\ env[r].desc = "ok"
        /\ env[r].cmp = "raise"
        /\ env[r].writes = 2

\* --------------------------------------------------------------- C12
\* C12: the report's passed count is the number of entries of its own case
\* list with passed = true, and the report is determined by the cases as
\* they are when the batch ends (and the report's timestamp).
C12_PassedCountMatchesEntries ==
    pc = "done" =>
        /\ report.passed
              = Cardinality({k \in 1..Len(report.test_cases) :
                                report.test_cases[k].passed})
        /\ \A k \in Positions : report.test_cases[k] = heap[test_cases[k]]
        /\ report.failed
              = Cardinality({k \in 1..Len(report.test_cases) :
                                ~report.test_cases[k].passed})

\* a report over two distinct objects, one passed and one not
C12_Witness ==
    /\ pc = "done"
    /\ Len(test_cases) >= 2
    /\ \E a \in Positions : \E b \in Positions :
        /\ test_cases[a] # test_cases[b]
        /\ report.test_cases[a].passed
        /\ ~report.test_cases[b].passed

\* --------------------------------------------------------------- C13
\* number of calls of `what` for case r in the current run
Calls(what, r) == Cardinality({n \in 1..Len(log) : log[n] = <<what, r>>})

\* C13: no retries: within one run describe is called at most once per
\* case and compare at most once per case, also after a failure.
C13_NoRetries ==
    \A r \in Refs :
        /\ Calls("describe", r) <= 1
        /\ Calls("compare", r) <= 1
        /\ env[r].desc = "raise" => Calls("compare", r) = 0

\* a case failed in describe and the run went on to its end
C13_Witness ==
    /\ pc = "done"
    /\ \E r \in Refs :
        /\ env[r].desc = "raise"
        /\ Calls("describe", r) = 1
        /\ phase[r] = "FAILED"

\* --------------------------------------------------------------- C14
\* C14: the similarity_score stored in every case and every report entry
\* is within [0, 1], also when the cosine of the embeddings is negative.
C14_ScoreInUnitInterval ==
    /\ \A r \in Refs :
        heap[r].similarity_score >= 0 /\ heap[r].similarity_score <= 1
    /\ \A k \in 1..Len(report.test_cases) :
        /\ report.test_cases[k].similarity_score >= 0
        /\ report.test_cases[k].similarity_score <= 1

\* --------------------------------------------------------------- C20
\* C20: a case that ends FAILED reports similarity_score 0, also when the
\* same object was scored in an earlier run.
C20_FailedScoreIsZero ==
    /\ \A r \in Refs : phase[r] = "FAILED" => heap[r].similarity_score = 0
    /\ pc = "done" =>
        \A k \in Positions :
            phase[test_cases[k]] = "FAILED" =>
                report.test_cases[k].similarity_score = 0

\* --------------------------------------------------------------- C15
\* `part` occurs in `text` as a contiguous piece
Contains(text, part) ==
    \E k \in 1..(Len(text) - Len(part) + 1) :
        SubSeq(text, k, k + Len(part) - 1) = part

\* C15: on a response whose status is not 200 describe raises an error
\* whose message holds the status code and the response text, and the
\* failed case's "Error: ..." description holds both; a description is
\* returned only for a 200 response.
C15_UpstreamStatusPreserved ==
    \A r \in Refs :
        env[r].desc # "none" =>
            /\ env[r].status # 200 =>
                /\ env[r].desc = "raise"
                /\ Contains(env[r].msg, <<ToString(env[r].status)>>)
                /\ Contains(env[r].msg, env[r].body)
                /\ Len(env[r].body) > 0
                /\ phase[r] # "SCORED"
                /\ phase[r] = "FAILED" =>
                    /\ heap[r].actual_description[1] = "Error: "
                    /\ Contains(heap[r].actual_description, <<ToString(env[r].status)>>)
                    /\ Contains(heap[r].actual_description, env[r].body)
            /\ env[r].desc = "ok" => env[r].status = 200

\* a case failed by a 429 answer to the OpenAI client
C15_Witness ==
    \E r \in Refs :
        /\ client = "OpenAIVisionClient"
        /\ phase[r] = "FAILED"
        /\ env[r].status = 429
        /\ Contains(heap[r].actual_description, <<"429">>)

\* --------------------------------------------------------------- C16
\* C16: the Azure client, on a 200 response whose caption list is absent or
\* empty, returns "No description available" and does not raise; the runner
\* passes that text to the scorer like any description, and when the scorer
\* returns, the case ends SCORED with that text and no "Error: " prefix.
C16_NoCaptionSentinel ==
    \A r \in Refs :
        ( /\ client = "AzureComputerVisionClient"
          /\ env[r].desc # "none"
          /\ env[r].status = 200
          /\ env[r].captions = 0 ) =>
            /\ env[r].desc = "ok"
            /\ env[r].text = <<"No description available">>
            /\ env[r].cmp # "none" => Called("compare", r)
            /\ Terminal(r) => env[r].cmp # "none"
            /\ (Terminal(r) /\ env[r].cmp = "ok") =>
                /\ phase[r] = "SCORED"
                /\ heap[r].actual_description = <<"No description available">>
                /\ heap[r].actual_description[1] # "Error: "
                /\ heap[r].passed <=> (env[r].score >= threshold)

\* a case scored on the text returned for a response without captions
C16_Witness ==
    \E r \in Refs :
        /\ client = "AzureComputerVisionClient"
        /\ env[r].status = 200
        /\ env[r].captions = 0
        /\ phase[r] = "SCORED"
        /\ heap[r].actual_description = <<"No description available">>

\* --------------------------------------------------------------- C17
\* C17: when the embedding model does not load, the construction of the
\* runner raises to the caller: no run begins, no case is executed, and no
\* case object is changed (so no "Error: " result is written).
C17_ConstructorFailurePropagates ==
    /\ [](~loaded =>
            /\ pc = "constructor raised"
            /\ \A r \in Refs : ~env[r].checked /\ phase[r] = "PENDING"
            /\ log = <<>>
            /\ report = NoReport)
    /\ [](pc = "constructor raised" => ~loaded)
    /\ [][~loaded' => heap' = heap]_vars

\* the model failed to load after a run that had executed cases
C17_Witness ==
    /\ pc = "constructor raised"
    /\ ~loaded
    /\ \E r \in Refs : heap[r].timestamp # Unset

\* --------------------------------------------------------------- C18
\* the lifecycle edges of one case within a run
Edges ==
    {<<"PENDING", "DESCRIBING">>, <<"DESCRIBING", "SCORING">>,
     <<"SCORING", "SCORED">>, <<"PENDING", "FAILED">>,
     <<"DESCRIBING", "FAILED">>, <<"SCORING", "FAILED">>}

\* a run has begun and has not returned
Running == pc \notin {"idle", "done", "constructor raised"}

\* run_all_tests has returned, every case is terminal and stamped
Finished ==
    /\ pc = "done"
    /\ \A k \in Positions :
        /\ Terminal(test_cases[k])
        /\ heap[test_cases[k]].timestamp # Unset

\* C18: within a run a case moves only along the lifecycle edges (a new run
\* begins a new attempt at PENDING), and every run that has begun returns
\* with every case SCORED or FAILED and stamped: a run is left only by
\* returning, it has returned only with every case terminal and stamped,
\* and no run goes on for ever.
C18_LifecycleAndTermination ==
    /\ [][\A r \in Refs :
            \/ phase'[r] = phase[r]
            \/ <<phase[r], phase'[r]>> \in Edges
            \/ (pc \in {"idle", "done", "constructor raised"} /\ phase'[r] = "PENDING")]_vars
    /\ [][Running => (Running' \/ pc' = "done")]_vars
    /\ [](pc = "done" => Finished)
    /\ []<>(~Running)

\* a batch that ended with one case failed in the scorer and one scored
C18_Witness ==
    /\ Finished
    /\ \E r \in Refs : phase[r] = "FAILED" /\ env[r].cmp = "raise"
    /\ \E r \in Refs : phase[r] = "SCORED"

\* --------------------------------------------------------------- C19
\* every id is positive and no two positions hold the same id
UniquePositive(ids) ==
    /\ \A k \in 1..Len(ids) : ids[k] >= 1
    /\ \A a \in 1..Len(ids) : \A b \in 1..Len(ids) : a # b => ids[a] # ids[b]

\* C19: after any sequence of add, delete and clear requests the ids of the
\* stored cases are positive and pairwise distinct, and so are the ids of
\* every batch handed to the runner.
C19_StoreIdsUnique ==
    /\ UniquePositive(Ids(stored_cases))
    /\ UniquePositive(Ids(batch))

\* a batch with a gap left by a delete was run, the store was cleared and
\* a case was added again
C19_Witness ==
    /\ Ids(batch) = <<1, 3>>
    /\ Ids(stored_cases) = <<1, 2>>
    /\ test_case_counter = 3

\* --------------------------------------------------------------- C21
\* the report entry records a failure of its case
ErrorEntry(entry) ==
    /\ Len(entry.actual_description) > 0
    /\ entry.actual_description[1] = "Error: "

\* C21: when run-tests requests execute concurrently over the same stored
\* cases, possibly with different thresholds, every returned report has a
\* passed count equal to the number of its entries with passed = true, and
\* every entry without error has passed = (similarity_score >= the
\* threshold of that request).
C21_ReportsOfConcurrentRuns ==
    \A t \in Requests :
        rq[t].pc = "done" =>
            /\ rq[t].report.passed
                  = Cardinality({k \in 1..Len(rq[t].report.test_cases) :
                                    rq[t].report.test_cases[k].passed})
            /\ \A k \in 1..Len(rq[t].report.test_cases) :
                  ~ErrorEntry(rq[t].report.test_cases[k]) =>
                      (rq[t].report.test_cases[k].passed
                          <=> rq[t].report.test_cases[k].similarity_score
                                  >= rq[t].threshold)

====
